---- MODULE Spec2Model ----
(***************************************************************************)
(* NetraDrive client: the upload queue hook (useUploader, src/src/App.tsx) *)
(* and the authenticated request pipeline (api, src/src/lib/utils.ts).     *)
(*                                                                         *)
(* The state machines share one module.  SpecUpload runs the upload queue: *)
(* React state `uploads`, the passive effects that react to its changes,   *)
(* the XMLHttpRequest of every started transfer and the continuation of    *)
(* every processQueue call.  SpecAuth runs api.request / api.refreshToken  *)
(* over the token store and the module-level refreshTokenPromise slot.     *)
(* SpecMove runs the move dialog of Modals: the folder tree snapshot, the  *)
(* disabled targets computed from it and the requests handleMove sends.    *)
(* SpecPoll runs the task polling loop of the two ProgressPage components. *)
(* SpecPushed runs the file tests of uploadFiles of the two useUploader    *)
(* hooks over batches of dropped files.                                    *)
(***************************************************************************)
EXTENDS Integers, Sequences, FiniteSets, TLC

\* ------------------------------------------------------------------ bounds
\* total number of File objects ever handed to uploadFiles
MaxFiles == 2
\* longest batch handed to one uploadFiles call
MaxBatch == 2
\* number of api.request calls made
NReq == 2
\* number of calls of the refresh endpoint that may be started
MaxRefresh == 2
\* number of credential pairs the server issues (logins and refreshes)
MaxIssued == 2
\* number of folders of the drive
MaxFolders == 3
\* longest batch of items handed to the move dialog
MaxMove == 2
\* number of api.getFolderTree() calls that may be unanswered at once
MaxPending == 1
\* number of times a progress view is mounted
MaxMounts == 2
\* number of fetches one poll loop may start
MaxPolls == 3

\* ------------------------------------------------------- program constants
\* const maxFileSize = 1 * 1024 * 1024 * 1024
maxFileSize == 1 * 1024 * 1024 * 1024

\* sizes a dropped file may have: 10 MB, exactly the maximum, one byte more,
\* and 2 GB (decimal, the largest that fits the checker's integers)
FileSizes == {10485760, maxFileSize, maxFileSize + 1, 2000000000}
\* (e.loaded / e.total) * 100 as reported by xhr.upload "progress": one value
\* strictly between the initial 0 and the 100 written on completion
ProgressValues == {50}
\* folderId argument of uploadFiles (null is the root)
FolderIds == {"null"}

Ids == 1..MaxFiles

Reqs == 1..NReq

RefreshIds == 1..MaxRefresh

VARIABLES
  uploads,     \* useState<UploadItem[]>: the queue, a sequence of items
  dirty,       \* `uploads` changed since the passive effects last ran
  timer,       \* ids captured by the pending eviction setTimeout ({} = none)
  xhrState,    \* per item id: state of the XMLHttpRequest of its transfer
  pq,          \* per item id: position of the processQueue call that took it
  started,     \* per item id: number of api.uploadFile calls (xhr.send)
  rejected,    \* files for which toast.error("... is too large") was shown
  nextFid,     \* next fresh file handle / Math.random() id
  cancels,     \* history: ids on which cancelUpload was called with the transfer in flight
  refreshKey,  \* AppShell's useState(0), incremented by onUploadComplete
  op,          \* the operation performed by the last step, with its arguments
  tokens,      \* localStorage accessToken / refreshToken (0 = absent)
  issued,      \* number of credential pairs the server has issued so far
  refreshTokenPromise,  \* the module-level slot: 0 = null, k = promise of refresh k
  refreshState,         \* per refresh call: "unused", "fetching", "ok", "fail"
  refreshCalls,         \* number of POSTs sent to /auth/refresh_token
  micro,       \* the promise jobs still to run in the current task
  waiters,     \* per refresh call: the request() calls awaiting its promise
  req,         \* per request() call: its position and what it has done
  modal,       \* DrivePage's ModalState as seen by Modals: { type, data }
  folderTree,  \* Modals' useState<FolderTreeNode[]>: the folder tree snapshot
  selectedMoveTarget,   \* Modals' useState<string | null> (0 = null, the root)
  pendingTree, \* number of api.getFolderTree() calls not yet answered
  moving,      \* number of promises a handleMove call awaits in Promise.allSettled (0 = no call)
  disabledIds, \* the value of the getDisabledIds memo at the last render of Modals
  progressView,  \* which ProgressPage is mounted with a known user id (0 = none)
  pollGen,     \* number of runs of the poll effect so far
  loops,       \* per run of the poll effect: its closure and its position
  hook,        \* which of the two useUploader hooks of App.tsx is called (1 or 2)
  picked,      \* the files argument of one uploadFiles call: size and MIME type
  pushed       \* the newUploads of that call, once it has run

uploadVars == <<uploads, dirty, timer, xhrState, pq, started, rejected, nextFid, cancels,
                refreshKey>>

authVars == <<tokens, issued, refreshTokenPromise, refreshState, refreshCalls, micro,
              waiters, req>>

moveVars == <<modal, folderTree, selectedMoveTarget, pendingTree, moving, disabledIds>>

pollVars == <<progressView, pollGen, loops>>

acceptVars == <<hook, picked, pushed>>

otherThanUpload == <<authVars, moveVars, pollVars, acceptVars>>

otherThanAuth == <<uploadVars, moveVars, pollVars, acceptVars>>

otherThanMove == <<uploadVars, authVars, pollVars, acceptVars>>

otherThanPoll == <<uploadVars, authVars, moveVars, acceptVars>>

otherThanAccept == <<uploadVars, authVars, moveVars, pollVars>>

vars == <<uploads, dirty, timer, xhrState, pq, started, rejected, nextFid, cancels,
          refreshKey, op,
          tokens, issued, refreshTokenPromise, refreshState, refreshCalls, micro,
          waiters, req, modal, folderTree, selectedMoveTarget, pendingTree, moving,
          disabledIds, progressView, pollGen, loops, hook, picked, pushed>>

\* ------------------------------------------------------------ sequences
RECURSIVE SeqsUpTo(_, _)
SeqsUpTo(S, n) ==
  IF n = 0 THEN {<<>>}
  ELSE LET shorter == SeqsUpTo(S, n - 1)
       IN shorter \cup {Append(s, x) : s \in {t \in shorter : Len(t) = n - 1}, x \in S}

MapSeq(s, F(_)) == [i \in DOMAIN s |-> F(s[i])]

ItemIds(q) == {q[i].id : i \in DOMAIN q}

ItemOf(q, id) == q[CHOOSE i \in DOMAIN q : q[i].id = id]

Op(name, id, batch) == [name |-> name, id |-> id, batch |-> batch]

\* ------------------------------------------------------------ uploadFiles
\* newUploads.push({ id: Math.random(), file, progress: 0, status: "queued",
\*                   folderId })  -- the id is a fresh value (the number of the
\* file handle serves as that value); `file` is the reference to the File,
\* whose size is read by uploadFiles only
NewUpload(file, folderId) ==
  [id |-> file.fid, file |-> file.fid, folderId |-> folderId,
   progress |-> 0, status |-> "queued", xhr |-> FALSE]

\* a size test that also turns away a file of exactly the maximum size
TooLarge_AtLimit(file) == file.size >= maxFileSize

\* the size test of the for loop: a file is skipped when file.size > maxFileSize
TooLarge(file) == file.size > maxFileSize

\* the for loop of uploadFiles: the items pushed to newUploads, in batch order
RECURSIVE newUploads(_, _)
newUploads(files, folderId) ==
  IF files = <<>> THEN <<>>
  ELSE IF TooLarge(Head(files)) THEN newUploads(Tail(files), folderId)
       ELSE <<NewUpload(Head(files), folderId)>> \o newUploads(Tail(files), folderId)

\* the files of the batch for which toast.error was called
tooLargeFiles(files) == {files[i].fid : i \in {j \in DOMAIN files : TooLarge(files[j])}}

\* a batch of fresh File objects with the given sizes
Batch(sizes) == [i \in DOMAIN sizes |-> [fid |-> nextFid + i - 1, size |-> sizes[i]]]

uploadFiles(files, folderId) ==
  LET new == newUploads(files, folderId) IN
  /\ rejected' = rejected \cup tooLargeFiles(files)
  /\ IF Len(new) > 0
       THEN uploads' = uploads \o new /\ dirty' = TRUE
       ELSE UNCHANGED <<uploads, dirty>>
  /\ nextFid' = nextFid + Len(files)
  /\ op' = Op("uploadFiles", 0, files)
  /\ UNCHANGED otherThanUpload
  /\ UNCHANGED <<timer, xhrState, pq, started, cancels, refreshKey>>

\* ----------------------------------------------------------- cancelUpload
\* the test of the updater: u.id === uploadId && u.xhr
CancelHits(u, uploadId) == u.id = uploadId /\ u.xhr

\* prev.map(u => hit ? { ...u, status: "cancelled" } : u)
cancelMap(prev, uploadId) ==
  MapSeq(prev, LAMBDA u : IF CancelHits(u, uploadId)
                            THEN [u EXCEPT !.status = "cancelled"] ELSE u)

\* processQueue is still waiting for the outcome of the item's transfer: the
\* request is open, or the body of its non-success response is being read
InFlight(id) == pq[id] \in {"await", "json"}

\* xhr.abort(): an open request fires "abort" synchronously, the promise is
\* rejected with "Upload cancelled." and the catch block of processQueue only
\* shows toast.info; on a finished request abort() does nothing
cancelUpload(uploadId) ==
  LET hit == \E i \in DOMAIN uploads : CancelHits(uploads[i], uploadId)
      aborts == hit /\ xhrState[uploadId] = "open" IN
  /\ uploads' = cancelMap(uploads, uploadId)
  /\ dirty' = TRUE
  /\ xhrState' = IF aborts THEN [xhrState EXCEPT ![uploadId] = "abort"] ELSE xhrState
  /\ pq' = IF aborts THEN [pq EXCEPT ![uploadId] = "done"] ELSE pq
  /\ cancels' = IF InFlight(uploadId) THEN cancels \cup {uploadId} ELSE cancels
  /\ op' = Op("cancelUpload", uploadId, <<>>)
  /\ UNCHANGED otherThanUpload
  /\ UNCHANGED <<timer, started, rejected, nextFid, refreshKey>>

\* ------------------------------------------------ processQueue and effects
\* a find that takes the last queued item
nextUpload_Last(q) ==
  LET queued == {i \in DOMAIN q : q[i].status = "queued"} IN
  IF queued = {} THEN 0
  ELSE q[CHOOSE i \in queued : \A j \in queued : i >= j].id

\* uploads.find(u => u.status === "queued"): the id of the first queued item,
\* 0 when there is none
nextUpload(q) ==
  LET queued == {i \in DOMAIN q : q[i].status = "queued"} IN
  IF queued = {} THEN 0
  ELSE q[CHOOSE i \in queued : \A j \in queued : i <= j].id

\* an updater that leaves the status of the taken item "queued"
startMap_StaysQueued(prev, id) == prev

\* the two synchronous setUploads of processQueue: status "uploading", then xhr
startMap(prev, id) ==
  MapSeq(prev, LAMBDA u : IF u.id = id
                            THEN [u EXCEPT !.status = "uploading", !.xhr = TRUE] ELSE u)

\* uploads.filter(u => terminal status), as captured by the eviction effect
finishedUploads(q) ==
  {q[i].id : i \in {j \in DOMAIN q : q[j].status \in {"complete", "error", "cancelled"}}}

\* the passive effects of one commit: cleanup of the previous eviction effect
\* (clearTimeout), the processing effect (processQueue up to its await) and
\* the eviction effect (setTimeout over the rendered finished items)
RunEffects ==
  LET id == nextUpload(uploads) IN
  /\ dirty
  /\ IF id # 0
       THEN /\ uploads' = startMap(uploads, id)
            /\ xhrState' = [xhrState EXCEPT ![id] = "open"]
            /\ started' = [started EXCEPT ![id] = @ + 1]
            /\ pq' = [pq EXCEPT ![id] = "await"]
            /\ dirty' = TRUE
       ELSE /\ dirty' = FALSE
            /\ UNCHANGED <<uploads, xhrState, started, pq>>
  /\ timer' = finishedUploads(uploads)
  /\ op' = Op("RunEffects", id, <<>>)
  /\ UNCHANGED otherThanUpload
  /\ UNCHANGED <<rejected, nextFid, cancels, refreshKey>>

\* ------------------------------------------------------- transport events
setField(prev, id, status, progress) ==
  MapSeq(prev, LAMBDA u : IF u.id = id
                            THEN [u EXCEPT !.status = status, !.progress = progress] ELSE u)

\* xhr.upload "progress": onProgress(p) -> setUploads(progress: p)
XhrProgress(id, p) ==
  /\ xhrState[id] = "open"
  /\ uploads' = MapSeq(uploads, LAMBDA u : IF u.id = id THEN [u EXCEPT !.progress = p] ELSE u)
  /\ dirty' = TRUE
  /\ op' = Op("XhrProgress", id, <<>>)
  /\ UNCHANGED otherThanUpload
  /\ UNCHANGED <<timer, xhrState, pq, started, rejected, nextFid, cancels, refreshKey>>

\* a callback that counts every completed transfer twice
onUploadComplete_Twice(k) == k + 2

\* onUploadComplete(): AppShell passes () => setRefreshKey(k => k + 1)
onUploadComplete(k) == k + 1

\* xhr "load" with a success status: res.ok, status "complete", progress 100,
\* onUploadComplete()
XhrLoadOk(id) ==
  /\ xhrState[id] = "open"
  /\ xhrState' = [xhrState EXCEPT ![id] = "loadOk"]
  /\ uploads' = setField(uploads, id, "complete", 100)
  /\ pq' = [pq EXCEPT ![id] = "done"]
  /\ dirty' = TRUE
  /\ refreshKey' = onUploadComplete(refreshKey)
  /\ op' = Op("XhrLoadOk", id, <<>>)
  /\ UNCHANGED otherThanUpload
  /\ UNCHANGED <<timer, started, rejected, nextFid, cancels>>

\* xhr "load" with a non-success status: processQueue goes on to
\* await res.json()
XhrLoadNotOk(id) ==
  /\ xhrState[id] = "open"
  /\ xhrState' = [xhrState EXCEPT ![id] = "loadErr"]
  /\ pq' = [pq EXCEPT ![id] = "json"]
  /\ op' = Op("XhrLoadNotOk", id, <<>>)
  /\ UNCHANGED otherThanUpload
  /\ UNCHANGED <<uploads, dirty, timer, started, rejected, nextFid, cancels, refreshKey>>

\* the catch block of processQueue for an error whose message is msg
catchError(prev, id, cancelledMsg) ==
  IF cancelledMsg THEN prev
  ELSE MapSeq(prev, LAMBDA u : IF u.id = id THEN [u EXCEPT !.status = "error"] ELSE u)

\* res.json() settles: throw new Error(errorData.detail || "Upload failed");
\* detailIsCancelled: the server's detail is the text "Upload cancelled."
JsonSettles(id, detailIsCancelled) ==
  /\ pq[id] = "json"
  /\ pq' = [pq EXCEPT ![id] = "done"]
  /\ uploads' = catchError(uploads, id, detailIsCancelled)
  /\ dirty' = IF detailIsCancelled THEN dirty ELSE TRUE
  /\ op' = Op("JsonSettles", id, <<>>)
  /\ UNCHANGED otherThanUpload
  /\ UNCHANGED <<timer, xhrState, started, rejected, nextFid, cancels, refreshKey>>

\* xhr "error": reject(new Error("Upload failed.")) -> catch -> status "error"
XhrError(id) ==
  /\ xhrState[id] = "open"
  /\ xhrState' = [xhrState EXCEPT ![id] = "error"]
  /\ pq' = [pq EXCEPT ![id] = "done"]
  /\ uploads' = catchError(uploads, id, FALSE)
  /\ dirty' = TRUE
  /\ op' = Op("XhrError", id, <<>>)
  /\ UNCHANGED otherThanUpload
  /\ UNCHANGED <<timer, started, rejected, nextFid, cancels, refreshKey>>

\* a timer callback that leaves the queue as it is
evict_Nothing(prev, finished) == prev

\* prev.filter(u => !finishedUploads.some(fu => fu.id === u.id))
evict(prev, finished) == SelectSeq(prev, LAMBDA u : u.id \notin finished)

\* the eviction setTimeout fires: setUploads(prev => prev.filter(...))
EvictionTimer ==
  /\ timer # {}
  /\ uploads' = evict(uploads, timer)
  /\ timer' = {}
  /\ dirty' = TRUE
  /\ op' = Op("EvictionTimer", 0, <<>>)
  /\ UNCHANGED otherThanUpload
  /\ UNCHANGED <<xhrState, pq, started, rejected, nextFid, cancels, refreshKey>>

\* the panel's close button: setUploads([])
ClearUploads ==
  /\ uploads # <<>>
  /\ uploads' = <<>>
  /\ dirty' = TRUE
  /\ op' = Op("ClearUploads", 0, <<>>)
  /\ UNCHANGED otherThanUpload
  /\ UNCHANGED <<timer, xhrState, pq, started, rejected, nextFid, cancels, refreshKey>>

\* ------------------------------------- uploadFiles of the two useUploader
\* a MIME type is a sequence of pieces; "" is the empty sequence
FileTypes ==
  {<<>>, <<"image/", "png">>, <<"application/pdf">>, <<"application/json">>,
   <<"application/", "x-msdownload">>}

\* const allowedTypes = [...] of the second hook
allowedTypes ==
  <<"image/", "video/", "audio/", "text/", "application/pdf", "application/zip",
    "application/x-zip-compressed", "application/json", "application/javascript">>

\* String.prototype.startsWith over pieces
startsWith(type, prefix) ==
  Len(prefix) <= Len(type) /\ SubSeq(type, 1, Len(prefix)) = prefix

\* allowedTypes.some((type) => file.type.startsWith(type)) || file.type === ""
TypeAllowed(type) ==
  \/ \E i \in DOMAIN allowedTypes : startsWith(type, <<allowedTypes[i]>>)
  \/ type = <<>>

\* the file passes the `continue` tests of the for loop of hook h
Pushes(h, file) ==
  /\ ~TooLarge(file)
  /\ h = 2 => TypeAllowed(file.type)

\* the files of newUploads after the for loop, in batch order
pushedFiles(h, files) == SelectSeq(files, LAMBDA f : Pushes(h, f))

NotCalled == [called |-> FALSE, files |-> <<>>]

\* File objects a user may drop
DroppedFiles == [size : FileSizes, type : FileTypes]

\* uploadFiles(files, folderId) of hook `hook` up to `if (newUploads.length > 0)`
UploadFilesCall ==
  /\ ~pushed.called
  /\ pushed' = [called |-> TRUE, files |-> pushedFiles(hook, picked)]
  /\ op' = Op("uploadFiles", hook, <<>>)
  /\ UNCHANGED <<hook, picked>>
  /\ UNCHANGED otherThanAccept

\* no uploadFiles call under study
InitAccept ==
  /\ hook = 1
  /\ picked = <<>>
  /\ pushed = NotCalled

\* ------------------------------------------------------------ upload spec
EnqueueStep ==
  \E sizes \in SeqsUpTo(FileSizes, MaxBatch) \ {<<>>}, f \in FolderIds :
    /\ nextFid + Len(sizes) - 1 <= MaxFiles
    /\ uploadFiles(Batch(sizes), f)

CancelStep == \E id \in ItemIds(uploads) : cancelUpload(id)

ProgressStep == \E id \in Ids, p \in ProgressValues : XhrProgress(id, p)

LoadOkStep == \E id \in Ids : XhrLoadOk(id)

LoadNotOkStep == \E id \in Ids : XhrLoadNotOk(id)

JsonStep == \E id \in Ids, c \in BOOLEAN : JsonSettles(id, c)

ErrorStep == \E id \in Ids : XhrError(id)

InitUpload ==
  /\ uploads = <<>>
  /\ dirty = FALSE
  /\ timer = {}
  /\ xhrState = [i \in Ids |-> "unsent"]
  /\ pq = [i \in Ids |-> "none"]
  /\ started = [i \in Ids |-> 0]
  /\ rejected = {}
  /\ nextFid = 1
  /\ cancels = {}
  /\ refreshKey = 0
  /\ op = Op("init", 0, <<>>)

NextUpload ==
  \/ EnqueueStep
  \/ CancelStep
  \/ RunEffects
  \/ ProgressStep
  \/ LoadOkStep
  \/ LoadNotOkStep
  \/ JsonStep
  \/ ErrorStep
  \/ EvictionTimer
  \/ ClearUploads

\* ====================================================== api (lib/utils.ts)
NoTokens == [access |-> 0, refresh |-> 0]

\* a clearTokens that leaves the refresh credential in the store
clearTokens_KeepsRefresh == [tokens EXCEPT !.access = 0]

\* clearTokens: removeItem("accessToken"); removeItem("refreshToken")
clearTokens == NoTokens

\* a setTokens that stores the new access credential beside the refresh
\* credential of the issuance before
setTokens_OldRefresh(n) == [access |-> n, refresh |-> n - 1]

\* setTokens(access, refresh) with the pair of one server response
setTokens(n) == [access |-> n, refresh |-> n]

NoMicro == [k |-> 0, stage |-> "none"]

IdleReq ==
  [pc |-> "idle", sends |-> 0, tok1 |-> 0, tok2 |-> 0, awaits |-> 0, awaited |-> 0,
   result |-> "none", status |-> 0, reloaded |-> FALSE]

\* a slot test that never finds a refresh pending
SlotEmpty_Always(slot) == TRUE

\* if (!refreshTokenPromise)
SlotEmpty(slot) == slot = 0

\* a request() that treats the response of its replay like a first response
AfterReplay_Again(st) == IF st = 401 THEN "sent1" ELSE "done"

\* after `response = await makeRequest()` of the replay nothing follows but
\* `return response`
AfterReplay(st) == "done"

\* a makeRequest that sends no credential
bearer_None(t) == 0

\* makeRequest: const { access } = getTokens(); Authorization: `Bearer ${access}`
bearer(t) == t.access

\* request(): makeRequest() reads the access credential and sends the request
Request(r) ==
  /\ micro = NoMicro
  /\ req[r].pc = "idle"
  /\ req' = [req EXCEPT ![r].pc = "sent1", ![r].sends = 1, ![r].tok1 = bearer(tokens)]
  /\ op' = Op("Request", r, <<>>)
  /\ UNCHANGED <<tokens, issued, refreshTokenPromise, refreshState, refreshCalls, micro, waiters>>
  /\ UNCHANGED otherThanAuth

\* a test that finds a refresh credential in any store
hasRefresh_Always(t) == TRUE

\* response.status === 401 && getTokens().refresh: the refresh credential is
\* a non-empty string
hasRefresh(t) == t.refresh # 0

\* the first response arrives.  On 401 with a refresh credential stored:
\* start refreshToken() when the slot is empty (its fetch is sent at once,
\* since the refresh credential is there), then await the slot's promise.
\* Otherwise return the response.
FirstResponse(r, st) ==
  /\ micro = NoMicro
  /\ req[r].pc = "sent1"
  /\ IF st = 401 /\ hasRefresh(tokens)
       THEN IF SlotEmpty(refreshTokenPromise)
              THEN LET k == refreshCalls + 1 IN
                   /\ k <= MaxRefresh
                   /\ refreshCalls' = k
                   /\ refreshState' = [refreshState EXCEPT ![k] = "fetching"]
                   /\ refreshTokenPromise' = k
                   /\ waiters' = [waiters EXCEPT ![k] = Append(@, r)]
                   /\ req' = [req EXCEPT ![r].pc = "awaitRefresh", ![r].status = st,
                                         ![r].awaits = @ + 1, ![r].awaited = k]
              ELSE /\ waiters' = [waiters EXCEPT ![refreshTokenPromise] = Append(@, r)]
                   /\ req' = [req EXCEPT ![r].pc = "awaitRefresh", ![r].status = st,
                                         ![r].awaits = @ + 1,
                                         ![r].awaited = refreshTokenPromise]
                   /\ UNCHANGED <<refreshCalls, refreshState, refreshTokenPromise>>
       ELSE /\ req' = [req EXCEPT ![r].pc = "done", ![r].status = st]
            /\ UNCHANGED <<refreshCalls, refreshState, refreshTokenPromise, waiters>>
  /\ op' = Op("FirstResponse", r, <<>>)
  /\ UNCHANGED <<tokens, issued, micro>>
  /\ UNCHANGED otherThanAuth

\* refreshToken() after its fetch: a success response (and its body) stores
\* the new pair and returns true; anything else is caught and returns false.
\* The promise jobs that follow (finally, then the waiters) run before any
\* other task.
RefreshResponds(k, ok) ==
  /\ micro = NoMicro
  /\ refreshState[k] = "fetching"
  /\ IF ok
       THEN /\ issued < MaxIssued
            /\ issued' = issued + 1
            /\ tokens' = setTokens(issued + 1)
            /\ refreshState' = [refreshState EXCEPT ![k] = "ok"]
       ELSE /\ refreshState' = [refreshState EXCEPT ![k] = "fail"]
            /\ UNCHANGED <<issued, tokens>>
  /\ micro' = [k |-> k, stage |-> "finally"]
  /\ op' = Op("RefreshResponds", k, <<>>)
  /\ UNCHANGED <<refreshTokenPromise, refreshCalls, waiters, req>>
  /\ UNCHANGED otherThanAuth

\* a finally callback that leaves the slot as it is
finallySlot_Kept(slot) == slot

\* () => { refreshTokenPromise = null; }
finallySlot(slot) == 0

\* .finally(() => { refreshTokenPromise = null; })
FinallyCallback ==
  /\ micro.stage = "finally"
  /\ refreshTokenPromise' = finallySlot(refreshTokenPromise)
  /\ micro' = [micro EXCEPT !.stage = "resume"]
  /\ op' = Op("FinallyCallback", micro.k, <<>>)
  /\ UNCHANGED <<tokens, issued, refreshState, refreshCalls, waiters, req>>
  /\ UNCHANGED otherThanAuth

\* `const refreshSuccess = await refreshTokenPromise` resumes in the oldest
\* waiter: replay on success; clearTokens(), reload() and return on failure.
\* window.location.reload() only requests the navigation (recorded in the
\* call's `reloaded`); the promise jobs and tasks already pending still run.
ResumeWaiter ==
  /\ micro.stage = "resume"
  /\ waiters[micro.k] # <<>>
  /\ LET k == micro.k
         r == Head(waiters[k])
         refreshSuccess == refreshState[k] = "ok" IN
     /\ IF refreshSuccess
          THEN /\ req' = [req EXCEPT ![r].pc = "sent2", ![r].sends = @ + 1,
                                     ![r].tok2 = bearer(tokens), ![r].result = "ok"]
               /\ UNCHANGED tokens
          ELSE /\ tokens' = clearTokens
               /\ req' = [req EXCEPT ![r].pc = "done", ![r].reloaded = TRUE,
                                     ![r].result = "fail"]
     /\ waiters' = [waiters EXCEPT ![k] = Tail(@)]
     /\ micro' = IF Tail(waiters[k]) = <<>> THEN NoMicro ELSE micro
     /\ op' = Op("ResumeWaiter", r, <<>>)
  /\ UNCHANGED <<issued, refreshTokenPromise, refreshState, refreshCalls>>
  /\ UNCHANGED otherThanAuth

\* the response of the replay arrives and is returned
ReplayResponse(r, st) ==
  /\ micro = NoMicro
  /\ req[r].pc = "sent2"
  /\ req' = [req EXCEPT ![r].pc = AfterReplay(st), ![r].status = st]
  /\ op' = Op("ReplayResponse", r, <<>>)
  /\ UNCHANGED <<tokens, issued, refreshTokenPromise, refreshState, refreshCalls, micro, waiters>>
  /\ UNCHANGED otherThanAuth

\* LoginPage.handleSubmit: api.setTokens(data.access_token, data.refresh_token)
Login ==
  /\ micro = NoMicro
  /\ issued < MaxIssued
  /\ issued' = issued + 1
  /\ tokens' = setTokens(issued + 1)
  /\ op' = Op("Login", 0, <<>>)
  /\ UNCHANGED <<refreshTokenPromise, refreshState, refreshCalls, micro, waiters, req>>
  /\ UNCHANGED otherThanAuth

\* App.handleLogout: api.clearTokens()
Logout ==
  /\ micro = NoMicro
  /\ tokens # NoTokens
  /\ tokens' = clearTokens
  /\ op' = Op("Logout", 0, <<>>)
  /\ UNCHANGED <<issued, refreshTokenPromise, refreshState, refreshCalls, micro, waiters, req>>
  /\ UNCHANGED otherThanAuth

\* ================================================ Modals: the move dialog
\* folder ids; 0 stands for null (the root, "My Drive")
FolderNodes == 1..MaxFolders

\* the id of the one file of the drive
FileId == MaxFolders + 1

\* follows the parent links of p from n for at most `fuel` steps to the root
RECURSIVE ReachesRoot(_, _, _)
ReachesRoot(p, n, fuel) ==
  \/ n = 0
  \/ fuel > 0 /\ n \in DOMAIN p /\ ReachesRoot(p, p[n], fuel - 1)

\* the folder trees the server may hold: a parent for each existing folder,
\* without cycles
ParentMaps ==
  {p \in UNION {[S -> S \cup {0}] : S \in SUBSET FolderNodes} :
     \A n \in DOMAIN p : ReachesRoot(p, n, MaxFolders)}

\* the FolderTreeNode[] of GET /folders/tree for the server tree p: the folders
\* whose parent is `par`, each with its children
RECURSIVE NodesOf(_, _, _)
NodesOf(p, par, from) ==
  IF from > MaxFolders THEN <<>>
  ELSE (IF from \in DOMAIN p /\ p[from] = par
          THEN <<[_id |-> from, children |-> NodesOf(p, from, 1)]>>
          ELSE <<>>) \o NodesOf(p, par, from + 1)

Snapshot(p) == NodesOf(p, 0, 1)

\* the DriveItems a listing may show: a folder with its parent_id, the file
\* with its folder_id (both in `parent`)
DriveItems ==
  {[_id |-> n, type |-> "folder", parent |-> q] : n \in FolderNodes, q \in 0..MaxFolders}
  \cup {[_id |-> FileId, type |-> "file", parent |-> q] : q \in 0..MaxFolders}

\* the items of b are distinct items of one server tree, in the order of
\* setItems([...foldersData, ...filesData]): folders before files
Listed(b) ==
  /\ \A i, j \in DOMAIN b : i # j => b[i]._id # b[j]._id
  /\ \A i, j \in DOMAIN b : (b[i].type = "file" /\ b[j].type = "folder") => i > j
  /\ \E p \in ParentMaps :
       \A i \in DOMAIN b :
         /\ b[i].parent \in DOMAIN p \cup {0}
         /\ b[i].type = "folder" => (b[i]._id \in DOMAIN p /\ p[b[i]._id] = b[i].parent)

\* the selections handleAction("move", items) may be called with
MoveBatches == {b \in SeqsUpTo(DriveItems, MaxMove) \ {<<>>} : Listed(b)}

NoModal == [type |-> "null", data |-> <<>>]

\* flattenTree: every node of the snapshot, at any depth
RECURSIVE flattenTree(_)
flattenTree(nodes) ==
  IF nodes = <<>> THEN {}
  ELSE {Head(nodes)} \cup flattenTree(Head(nodes).children) \cup flattenTree(Tail(nodes))

\* a lookup that finds no children for any folder
treeChildren_None(allFolders, id) == <<>>

\* const treeNode = allFolders.get(current._id);
\* if (treeNode && treeNode.children) queue.push(...treeNode.children)
treeChildren(allFolders, id) ==
  LET found == {n \in allFolders : n._id = id} IN
  IF found = {} THEN <<>> ELSE (CHOOSE n \in found : TRUE).children

\* while (queue.length > 0) { current = queue.shift(); disabled.add(current._id); ... }
RECURSIVE disabledLoop(_, _, _)
disabledLoop(queue, disabled, allFolders) ==
  IF queue = <<>> THEN disabled
  ELSE disabledLoop(Tail(queue) \o treeChildren(allFolders, Head(queue)._id),
                    disabled \cup {Head(queue)._id}, allFolders)

\* the useMemo of Modals over [modal.type, modal.data, folderTree]
getDisabledIds(m, tree) ==
  IF m.type # "move" \/ m.data = <<>> THEN {}
  ELSE LET folderItems == SelectSeq(m.data, LAMBDA i : i.type = "folder") IN
       IF folderItems = <<>> THEN {}
       ELSE disabledLoop(folderItems, {}, flattenTree(tree))

\* handleAction("move", items): setModal({ type: "move", data: items }); the
\* effect of Modals then starts fetchTree() and pre-selects the parent of the
\* first item
OpenMove(items) ==
  /\ modal = NoModal
  /\ pendingTree < MaxPending
  /\ modal' = [type |-> "move", data |-> items]
  /\ pendingTree' = pendingTree + 1
  /\ selectedMoveTarget' = items[1].parent
  /\ disabledIds' = getDisabledIds(modal', folderTree)
  /\ op' = Op("OpenMove", 0, <<>>)
  /\ UNCHANGED <<folderTree, moving>>
  /\ UNCHANGED otherThanMove

\* fetchTree after its await: if (res?.ok) setFolderTree(await res.json())
TreeResponds(ok, tree) ==
  /\ pendingTree > 0
  /\ pendingTree' = pendingTree - 1
  /\ folderTree' = IF ok THEN tree ELSE folderTree
  /\ disabledIds' = getDisabledIds(modal, folderTree')
  /\ op' = Op("TreeResponds", 0, <<>>)
  /\ UNCHANGED <<modal, selectedMoveTarget, moving>>
  /\ UNCHANGED otherThanMove

\* FolderTreeView: a click on the row of node id calls onSelectTarget(id)
\* unless disabledIds.has(id)
SelectTarget(id) ==
  /\ modal.type = "move"
  /\ id \in {n._id : n \in flattenTree(folderTree)}
  /\ id \notin disabledIds
  /\ selectedMoveTarget' = id
  /\ op' = Op("SelectTarget", id, <<>>)
  /\ UNCHANGED <<modal, folderTree, pendingTree, moving, disabledIds>>
  /\ UNCHANGED otherThanMove

\* the "My Drive (root)" row: setSelectedMoveTarget(null)
SelectRoot ==
  /\ modal.type = "move"
  /\ selectedMoveTarget' = 0
  /\ op' = Op("SelectRoot", 0, <<>>)
  /\ UNCHANGED <<modal, folderTree, pendingTree, moving, disabledIds>>
  /\ UNCHANGED otherThanMove

\* itemsToMove.map(item => api.moveItem(item.type, item._id, selectedMoveTarget)):
\* the requests sent, in batch order
moveRequests(items, target) ==
  [i \in DOMAIN items |-> [type |-> items[i].type, id |-> items[i]._id, dest |-> target]]

\* handleMove up to `await Promise.allSettled(promises)`: one request per item
\* of the batch, each to selectedMoveTarget (op.batch holds the requests)
handleMove ==
  /\ modal.type = "move"
  /\ moving = 0
  /\ moving' = Len(modal.data)
  /\ op' = Op("handleMove", 0, moveRequests(modal.data, selectedMoveTarget))
  /\ UNCHANGED <<modal, folderTree, selectedMoveTarget, pendingTree, disabledIds>>
  /\ UNCHANGED otherThanMove

\* how one api.moveItem promise ends: the response of an accepted move, a
\* response with a non-success status (request() returns it as it is), or a
\* rejection (fetch failed)
MoveOutcomes == {"ok", "refused", "rejected"}

\* Promise.allSettled: the status of the result of a promise that ended so
settledStatus(outcome) == IF outcome = "rejected" THEN "rejected" ELSE "fulfilled"

\* results.filter((r) => r.status === "fulfilled").length
successfulMoves(results) ==
  Cardinality({i \in DOMAIN results : settledStatus(results[i]) = "fulfilled"})

\* the counts of the two toasts: `${successfulMoves} item(s) moved.` and
\* `${itemsToMove.length - successfulMoves} item(s) failed to move.`
moveToasts(results) ==
  [results |-> results,
   moved |-> successfulMoves(results),
   failed |-> Len(results) - successfulMoves(results)]

\* handleMove after the await: the toasts, then onClose(true)
MoveSettled(results) ==
  /\ moving > 0
  /\ moving' = 0
  /\ modal' = NoModal
  /\ disabledIds' = getDisabledIds(modal', folderTree)
  /\ op' = Op("MoveSettled", 0, <<moveToasts(results)>>)
  /\ UNCHANGED <<folderTree, selectedMoveTarget, pendingTree>>
  /\ UNCHANGED otherThanMove

MoveSettledStep == \E results \in [1..moving -> MoveOutcomes] : MoveSettled(results)

\* Cancel, Escape or a click outside: onClose() -> setModal({ type: null, data: null })
CloseModal ==
  /\ modal.type = "move"
  /\ modal' = NoModal
  /\ disabledIds' = getDisabledIds(modal', folderTree)
  /\ op' = Op("CloseModal", 0, <<>>)
  /\ UNCHANGED <<folderTree, selectedMoveTarget, pendingTree, moving>>
  /\ UNCHANGED otherThanMove

OpenMoveStep == \E items \in MoveBatches : OpenMove(items)

TreeRespondsStep == \E ok \in BOOLEAN, p \in ParentMaps : TreeResponds(ok, Snapshot(p))

SelectTargetStep == \E id \in FolderNodes : SelectTarget(id)

InitMove ==
  /\ modal = NoModal
  /\ folderTree = <<>>
  /\ selectedMoveTarget = 0
  /\ pendingTree = 0
  /\ moving = 0
  /\ disabledIds = {}

\* one render of Modals with the given modal prop and folderTree state: the
\* memo is computed and handed to FolderTreeView as disabledIds
RenderModals ==
  /\ disabledIds' = getDisabledIds(modal, folderTree)
  /\ op' = Op("RenderModals", 0, <<>>)
  /\ UNCHANGED <<modal, folderTree, selectedMoveTarget, pendingTree, moving>>
  /\ UNCHANGED otherThanMove

NextMove ==
  \/ OpenMoveStep
  \/ TreeRespondsStep
  \/ SelectTargetStep
  \/ SelectRoot
  \/ handleMove
  \/ MoveSettledStep
  \/ CloseModal

\* ============================================= ProgressPage: task polling
\* the two ProgressPage components of App.tsx: the first keeps `mounted` and
\* `timeoutId` in the closure of its poll effect, the second keeps the timer
\* id in pollingRef = useRef<number | null>(null)
Variants == {1, 2}

PollIds == 1..MaxMounts

NoLoop == [variant |-> 0, mounted |-> FALSE, pollingRef |-> 0, pc |-> "none", fetches |-> 0]

\* the poll effect runs with user.sub known: (let mounted = true;) pollTasks()
\* is called and is at `await fetchTasks()`, the request for the tasks sent
NewLoop(v) == [variant |-> v, mounted |-> TRUE, pollingRef |-> 0, pc |-> "fetching", fetches |-> 1]

\* a pollTasks that sets the next timer whatever happened to the view
reschedules_Always(l) == TRUE

\* the test pollTasks makes after `await fetchTasks()`:
\* first component `if (mounted)`, second `if (pollingRef.current !== null)`
reschedules(l) == IF l.variant = 1 THEN l.mounted ELSE l.pollingRef # 0

\* a ProgressPage is mounted and its poll effect runs
MountProgress(v) ==
  /\ progressView = 0
  /\ pollGen < MaxMounts
  /\ progressView' = v
  /\ pollGen' = pollGen + 1
  /\ loops' = [loops EXCEPT ![pollGen + 1] = NewLoop(v)]
  /\ op' = Op("MountProgress", pollGen + 1, <<>>)
  /\ UNCHANGED otherThanPoll

\* fetchTasks() has returned (it catches every error of the request):
\* window.setTimeout(pollTasks, 2000) under the test of the component
FetchCompletes(g) ==
  /\ loops[g].pc = "fetching"
  /\ loops' = [loops EXCEPT ![g].pc = IF reschedules(loops[g]) THEN "timer" ELSE "ended",
                            ![g].pollingRef = IF loops[g].variant = 2 /\ reschedules(loops[g])
                                                THEN 1 ELSE @]
  /\ op' = Op("FetchCompletes", g, <<>>)
  /\ UNCHANGED <<progressView, pollGen>>
  /\ UNCHANGED otherThanPoll

\* the 2000 ms timer fires: pollTasks() sends the next request
PollTimer(g) ==
  /\ loops[g].pc = "timer"
  /\ loops[g].fetches < MaxPolls
  /\ loops' = [loops EXCEPT ![g].pc = "fetching", ![g].fetches = @ + 1]
  /\ op' = Op("PollTimer", g, <<>>)
  /\ UNCHANGED <<progressView, pollGen>>
  /\ UNCHANGED otherThanPoll

\* the view is left: the cleanup of the poll effect.  First component:
\* mounted = false; clearTimeout(timeoutId).  Second: if pollingRef.current
\* is not null, clearTimeout(pollingRef.current) and pollingRef.current = null
UnmountProgress ==
  /\ progressView # 0
  /\ progressView' = 0
  /\ loops' = [loops EXCEPT ![pollGen] =
       IF @.variant = 1
         THEN [@ EXCEPT !.mounted = FALSE, !.pc = IF @ = "timer" THEN "ended" ELSE @]
         ELSE IF @.pollingRef # 0
                THEN [@ EXCEPT !.pollingRef = 0, !.pc = IF @ = "timer" THEN "ended" ELSE @]
                ELSE @]
  /\ op' = Op("UnmountProgress", pollGen, <<>>)
  /\ UNCHANGED pollGen
  /\ UNCHANGED otherThanPoll

MountStep == \E v \in Variants : MountProgress(v)

FetchCompletesStep == \E g \in PollIds : FetchCompletes(g)

PollTimerStep == \E g \in PollIds : PollTimer(g)

InitPoll ==
  /\ progressView = 0
  /\ pollGen = 0
  /\ loops = [g \in PollIds |-> NoLoop]

NextPoll ==
  \/ MountStep
  \/ FetchCompletesStep
  \/ PollTimerStep
  \/ UnmountProgress

\* -------------------------------------------------------------- specs
RequestStep == \E r \in Reqs : Request(r)

FirstResponseStep == \E r \in Reqs, st \in {200, 401} : FirstResponse(r, st)

RefreshStep == \E k \in RefreshIds, ok \in BOOLEAN : RefreshResponds(k, ok)

ReplayResponseStep == \E r \in Reqs, st \in {200, 401} : ReplayResponse(r, st)

InitAuth ==
  /\ tokens = setTokens(1)
  /\ issued = 1
  /\ refreshTokenPromise = 0
  /\ refreshState = [k \in RefreshIds |-> "unused"]
  /\ refreshCalls = 0
  /\ micro = NoMicro
  /\ waiters = [k \in RefreshIds |-> <<>>]
  /\ req = [r \in Reqs |-> IdleReq]

Init ==
  /\ InitUpload
  /\ InitAuth
  /\ InitMove
  /\ InitPoll
  /\ InitAccept

\* either hook about to be called with any batch of dropped files
InitPushed ==
  /\ InitUpload
  /\ InitAuth
  /\ InitMove
  /\ InitPoll
  /\ hook \in {1, 2}
  /\ picked \in SeqsUpTo(DroppedFiles, MaxBatch)
  /\ pushed = NotCalled

\* Modals about to render a move dialog: any batch, any snapshot
InitDisabled ==
  /\ InitUpload
  /\ InitAuth
  /\ InitPoll
  /\ InitAccept
  /\ modal \in {[type |-> "move", data |-> b] : b \in MoveBatches}
  /\ folderTree \in {Snapshot(p) : p \in ParentMaps}
  /\ selectedMoveTarget = modal.data[1].parent
  /\ pendingTree = 0
  /\ moving = 0
  /\ disabledIds = {}

NextAuth ==
  \/ RequestStep
  \/ FirstResponseStep
  \/ RefreshStep
  \/ FinallyCallback
  \/ ResumeWaiter
  \/ ReplayResponseStep
  \/ Login
  \/ Logout

SpecUpload == Init /\ [][NextUpload]_vars

SpecAuth == Init /\ [][NextAuth]_vars

SpecMove == Init /\ [][NextMove]_vars

SpecPoll == Init /\ [][NextPoll]_vars

\* the for loop of uploadFiles as a function of the hook and the files
SpecPushed == InitPushed /\ [][UploadFilesCall]_vars

\* getDisabledIds as a function of its inputs
SpecDisabled == InitDisabled /\ [][RenderModals]_vars

\* the request pipeline where the promise jobs of a task run and the server
\* answers every request it was sent; the user's requests, logins and
\* logouts are under no obligation
FairAuth ==
  /\ Init
  /\ [][NextAuth]_vars
  /\ WF_vars(FinallyCallback)
  /\ WF_vars(ResumeWaiter)
  /\ WF_vars(FirstResponseStep)
  /\ WF_vars(RefreshStep)
  /\ WF_vars(ReplayResponseStep)

\* the upload panel: its cancel button is rendered for an item whose status
\* is "uploading" only
CancelButton ==
  \E id \in ItemIds(uploads) :
    /\ ItemOf(uploads, id).status = "uploading"
    /\ cancelUpload(id)

NextPanel ==
  \/ EnqueueStep
  \/ CancelButton
  \/ RunEffects
  \/ ProgressStep
  \/ LoadOkStep
  \/ LoadNotOkStep
  \/ JsonStep
  \/ ErrorStep
  \/ EvictionTimer
  \/ ClearUploads

\* the request of item id ends: load (any status) or error
TransferEnds(id) == XhrLoadOk(id) \/ XhrLoadNotOk(id) \/ XhrError(id)

\* the upload queue driven through the panel, where React runs pending
\* effects, a set timer fires, every open request ends and every response
\* body is read to its end; the user's actions are under no obligation
FairUpload ==
  /\ Init
  /\ [][NextPanel]_vars
  /\ WF_vars(RunEffects)
  /\ WF_vars(EvictionTimer)
  /\ \A id \in Ids : WF_vars(TransferEnds(id))
  /\ WF_vars(JsonStep)

\* ============================================================ upload claims
Terminal == {"complete", "error", "cancelled"}

\* C1: in every reachable state at most one item of the queue has status
\* "uploading".
C1_AtMostOneUploading ==
  Cardinality({i \in DOMAIN uploads : uploads[i].status = "uploading"}) <= 1

\* C4: at any instant at most one upload transport (an XMLHttpRequest that was
\* sent and has not loaded, failed or been aborted) is in flight.
C4_AtMostOneTransport ==
  Cardinality({id \in Ids : xhrState[id] = "open"}) <= 1

\* C7: cancelUpload on an item whose status is "queued" makes its status
\* "cancelled" without any transport having been started for it, and no
\* transport is started for an item whose status is "cancelled".
C7_CancelQueued ==
  [][\A id \in ItemIds(uploads) \cap ItemIds(uploads') :
       /\ (op' = Op("cancelUpload", id, <<>>) /\ ItemOf(uploads, id).status = "queued")
            => (ItemOf(uploads', id).status = "cancelled" /\ started'[id] = 0)
       /\ ItemOf(uploads, id).status = "cancelled" => started'[id] = started[id]]_vars

\* C8: an item on which cancelUpload was called while processQueue was still
\* waiting for the outcome of its transfer (the request open, or its
\* non-success body being read) has no open transport and, as long as it is in
\* the queue, status "cancelled" -- never "error".
C8_CancelInFlight ==
  \A id \in cancels :
    /\ xhrState[id] # "open"
    /\ id \in ItemIds(uploads) => ItemOf(uploads, id).status = "cancelled"

\* the five status changes of the item life cycle
AllowedChange ==
  {<<"queued", "uploading">>, <<"uploading", "complete">>, <<"uploading", "error">>,
   <<"queued", "cancelled">>, <<"uploading", "cancelled">>}

\* C9: every status change of an item is one of the five of the life cycle;
\* in particular no change leaves complete, error or cancelled.
C9_StatusDag ==
  [][\A id \in ItemIds(uploads) \cap ItemIds(uploads') :
       LET old == ItemOf(uploads, id).status
           new == ItemOf(uploads', id).status IN
       old # new => <<old, new>> \in AllowedChange]_vars

\* the files of a batch that are within the 1 GiB limit, as queued items
WithinLimit(files) == SelectSeq(files, LAMBDA f : f.size <= 1024 * 1024 * 1024)

\* C10: uploadFiles reports exactly the files larger than 1 GiB as rejected,
\* appends every other file of the batch (a file of exactly 1 GiB included) to
\* the end of the queue as a "queued" item, in batch order, and leaves the
\* queue as it was when every file is rejected; a rejected file is never in
\* the queue.
C10_OversizeRejectedAlone ==
  /\ [](\A i \in DOMAIN uploads :
          uploads[i].file \notin rejected)
  /\ [][op'.name = "uploadFiles" =>
          LET files == op'.batch
              kept == WithinLimit(files) IN
          /\ rejected' = rejected \cup
               {files[i].fid : i \in {j \in DOMAIN files : files[j].size > 1024 * 1024 * 1024}}
          /\ Len(uploads') = Len(uploads) + Len(kept)
          /\ SubSeq(uploads', 1, Len(uploads)) = uploads
          /\ \A i \in DOMAIN kept :
               /\ uploads'[Len(uploads) + i].id = kept[i].fid
               /\ uploads'[Len(uploads) + i].status = "queued"
               /\ uploads'[Len(uploads) + i].progress = 0]_vars

\* C10 witness: a batch holding a file of exactly 1 GiB and a larger one was
\* just handed to uploadFiles: the first is queued, the second reported.
C10_Witness ==
  /\ op.name = "uploadFiles"
  /\ \E i, j \in DOMAIN op.batch :
       /\ op.batch[i].size = 1024 * 1024 * 1024
       /\ op.batch[j].size > 1024 * 1024 * 1024
       /\ op.batch[i].fid \in ItemIds(uploads)
       /\ ItemOf(uploads, op.batch[i].fid).status = "queued"
       /\ op.batch[j].fid \in rejected
       /\ op.batch[j].fid \notin ItemIds(uploads)

\* the position of item id in the queue q
PosOf(q, id) == CHOOSE i \in DOMAIN q : q[i].id = id

\* C17: uploadFiles leaves the items already queued where they are and puts
\* the accepted files behind them in the order of the batch; no step changes
\* the relative order of two items; and a transfer is started only for an item
\* that no item with status "queued" precedes in the queue.
C17_QueueOrder ==
  /\ [][op'.name = "uploadFiles" =>
          /\ Len(uploads') >= Len(uploads)
          /\ SubSeq(uploads', 1, Len(uploads)) = uploads
          /\ \A i, j \in (Len(uploads) + 1)..Len(uploads') :
               i < j =>
                 \E k, l \in DOMAIN op'.batch :
                   /\ k < l
                   /\ op'.batch[k].fid = uploads'[i].id
                   /\ op'.batch[l].fid = uploads'[j].id]_vars
  /\ [][\A a, b \in ItemIds(uploads) \cap ItemIds(uploads') :
          PosOf(uploads, a) < PosOf(uploads, b) => PosOf(uploads', a) < PosOf(uploads', b)]_vars
  /\ [][\A id \in Ids :
          started'[id] > started[id] =>
            /\ id \in ItemIds(uploads)
            /\ ItemOf(uploads, id).status = "queued"
            /\ \A i \in 1..(PosOf(uploads, id) - 1) : uploads[i].status # "queued"]_vars

\* C17 witness: of two queued items the effect has just started the transfer
\* of the first; the second is still queued behind it.
C17_Witness ==
  /\ Len(uploads) = 2
  /\ op = Op("RunEffects", uploads[1].id, <<>>)
  /\ uploads[1].status = "uploading" /\ started[uploads[1].id] = 1
  /\ uploads[2].status = "queued" /\ started[uploads[2].id] = 0

\* C18: the step in which a transfer ends with a success response gives the
\* item, if it is in the queue, status "complete" and progress 100 and calls
\* onUploadComplete once; no other step calls it: the number of calls is the
\* number of transfers that ended with a success response.
C18_CompleteNotifiesOnce ==
  /\ [][\A id \in Ids :
          op' = Op("XhrLoadOk", id, <<>>) =>
            /\ xhrState[id] = "open" /\ xhrState'[id] = "loadOk"
            /\ refreshKey' = refreshKey + 1
            /\ id \in ItemIds(uploads) =>
                 /\ ItemOf(uploads', id).status = "complete"
                 /\ ItemOf(uploads', id).progress = 100]_vars
  /\ [][refreshKey' # refreshKey => op'.name = "XhrLoadOk"]_vars
  /\ [](refreshKey = Cardinality({id \in Ids : xhrState[id] = "loadOk"}))
  /\ [](\A id \in Ids : started[id] <= 1)

\* C18 witness: one transfer has ended with a success response and another
\* has failed; onUploadComplete was called once.
C18_Witness ==
  /\ refreshKey = 1
  /\ \E a, b \in Ids :
       /\ xhrState[a] = "loadOk"
       /\ a \in ItemIds(uploads) /\ ItemOf(uploads, a).status = "complete"
       /\ xhrState[b] \in {"error", "loadErr", "abort"}

\* the transfer of item id has failed: its request ended in "error", or in a
\* response that is not a success
Failed(id) == xhrState[id] \in {"error", "loadErr"}

\* C19: the step in which processQueue handles the failure of a transfer
\* (the request's "error", or the body of a non-success response read) leaves
\* every other item as it is and the failed item, if it is in the queue, with
\* status "error"; and once a transfer has failed every other item of the
\* queue eventually is terminal or has left the queue.
C19_FailureIsolated ==
  /\ [][\A id \in Ids :
          (op' = Op("XhrError", id, <<>>) \/ op' = Op("JsonSettles", id, <<>>)) =>
            /\ \A o \in ItemIds(uploads) \ {id} :
                 o \in ItemIds(uploads') /\ ItemOf(uploads', o) = ItemOf(uploads, o)
            /\ id \in ItemIds(uploads) =>
                 (id \in ItemIds(uploads') /\ ItemOf(uploads', id).status = "error")]_vars
  /\ \A a, b \in Ids :
       (a # b /\ Failed(a) /\ b \in ItemIds(uploads))
         ~> (b \notin ItemIds(uploads) \/ ItemOf(uploads, b).status \in Terminal)

\* ============================================================== api claims
Issued == {r \in Reqs : req[r].pc # "idle"}

\* C2: when every request issued so far carried the same access credential
\* and was answered 401 while a refresh credential was stored, the refresh
\* endpoint has been called exactly once.
C2_ExactlyOneRefresh ==
  (/\ Issued # {}
   /\ \A r \in Issued : req[r].tok1 # 0 /\ req[r].awaits >= 1
   /\ \A r1, r2 \in Issued : req[r1].tok1 = req[r2].tok1)
  => refreshCalls = 1

\* at most one refresh fetch is outstanding, and the requests that awaited
\* the same refresh saw the same result
OneRefreshSameResult ==
  /\ Cardinality({k \in RefreshIds : refreshState[k] = "fetching"}) <= 1
  /\ \A r1, r2 \in Reqs :
       (req[r1].awaited # 0 /\ req[r1].awaited = req[r2].awaited
        /\ req[r1].result # "none" /\ req[r2].result # "none")
       => req[r1].result = req[r2].result

\* the step in which request r receives 401 for its first attempt
Gets401(r) == req[r].pc = "sent1" /\ req'[r].status = 401 /\ op' = Op("FirstResponse", r, <<>>)

\* request r joins the pending refresh: no call of the endpoint, the slot
\* untouched, r awaiting the promise the slot holds
JoinsPending(r) ==
  /\ refreshCalls' = refreshCalls
  /\ refreshState' = refreshState
  /\ refreshTokenPromise' = refreshTokenPromise
  /\ req'[r].pc = "awaitRefresh"
  /\ req'[r].awaited = refreshTokenPromise

\* C3 as stated: while refreshTokenPromise is non-null every request that
\* receives 401 joins the pending refresh without a new call; at most one
\* refresh call is in flight; waiters of one refresh see one result.
C3_PendingRefreshShared ==
  /\ []OneRefreshSameResult
  /\ [][\A r \in Reqs : (Gets401(r) /\ refreshTokenPromise # 0) => JoinsPending(r)]_vars

\* C3 as amended: while refreshTokenPromise is non-null no request that
\* receives 401 causes a call of the refresh endpoint or touches the slot, and
\* a request that receives 401 while a refresh credential is stored awaits the
\* pending refresh; at most one refresh call is in flight; waiters of one
\* refresh see one result.
C3_PendingRefreshSharedWhenStored ==
  /\ []OneRefreshSameResult
  /\ [][\A r \in Reqs :
          (Gets401(r) /\ refreshTokenPromise # 0) =>
            /\ refreshCalls' = refreshCalls
            /\ refreshState' = refreshState
            /\ refreshTokenPromise' = refreshTokenPromise
            /\ tokens.refresh # 0 => JoinsPending(r)]_vars

\* C3 witness: two requests awaited the same refresh call, the second joining
\* while it was pending, and both have seen its result.
C3_Witness ==
  /\ refreshCalls = 1
  /\ \E r1, r2 \in Reqs :
       /\ r1 # r2
       /\ req[r1].awaited = 1 /\ req[r2].awaited = 1
       /\ req[r1].result # "none" /\ req[r1].result = req[r2].result

\* C5: one request() call sends its request at most twice and awaits at most
\* one refresh; a 401 answer to the replay is returned: the call is over with
\* that status, having started no refresh and sent nothing more.
C5_AtMostOneReplay ==
  /\ [](\A r \in Reqs : req[r].sends <= 2 /\ req[r].awaits <= 1)
  /\ [][\A r \in Reqs :
          (req[r].pc = "sent2" /\ op' = Op("ReplayResponse", r, <<>>)) =>
            /\ req'[r].pc = "done"
            /\ req[r].sends = 2 /\ req'[r].sends = 2
            /\ req'[r].awaits = 1
            /\ refreshCalls' = refreshCalls
            /\ refreshTokenPromise' = refreshTokenPromise]_vars

\* C5 witness: a call has returned the 401 its replay was answered with.
C5_Witness ==
  \E r \in Reqs : req[r].pc = "done" /\ req[r].sends = 2 /\ req[r].status = 401

\* C6: when the refresh a request() call awaited has failed, the call removes
\* both credentials, signals the reload and returns in the same step with the
\* store empty, without sending its request again -- then or later.
C6_RefreshFailureClearsSession ==
  /\ [](\A r \in Reqs :
          req[r].result = "fail" =>
            req[r].pc = "done" /\ req[r].sends = 1 /\ req[r].reloaded)
  /\ [][\A r \in Reqs :
          (op' = Op("ResumeWaiter", r, <<>>) /\ refreshState[req[r].awaited] # "ok") =>
            /\ tokens'.access = 0 /\ tokens'.refresh = 0
            /\ req'[r].pc = "done"
            /\ req'[r].reloaded
            /\ req'[r].sends = req[r].sends]_vars

\* C6 witness: a call whose awaited refresh failed has just returned, the
\* store being empty.
C6_Witness ==
  \E r \in Reqs :
    /\ op = Op("ResumeWaiter", r, <<>>)
    /\ req[r].result = "fail" /\ req[r].pc = "done" /\ req[r].reloaded
    /\ tokens = [access |-> 0, refresh |-> 0]

\* C13: an item of the queue whose status is complete, error or cancelled is
\* eventually no longer in the queue, and an item leaves the queue only when
\* the eviction timer fires or the queue is cleared.
C13_TerminalEvicted ==
  /\ \A id \in Ids :
       (id \in ItemIds(uploads) /\ ItemOf(uploads, id).status \in Terminal)
         ~> (id \notin ItemIds(uploads))
  /\ [][ItemIds(uploads) \ ItemIds(uploads') # {} =>
          op'.name \in {"EvictionTimer", "ClearUploads"}]_vars

\* C13 witness: the eviction timer has just fired and removed an item whose
\* transfer had ended, other items being left in the queue.
C13_Witness ==
  /\ op.name = "EvictionTimer"
  /\ uploads # <<>>
  /\ \E id \in Ids : id \notin ItemIds(uploads) /\ xhrState[id] \in {"loadOk", "error", "abort"}

C15_SlotClearedBeforeWaiters ==
  /\ []((micro = NoMicro /\ refreshTokenPromise # 0)
          => refreshState[refreshTokenPromise] = "fetching")
  /\ [][op'.name = "ResumeWaiter" => refreshTokenPromise = 0]_vars
  /\ [][\A r \in Reqs :
          (Gets401(r) /\ tokens.refresh # 0
           /\ \A k \in RefreshIds : refreshState[k] # "fetching") =>
            /\ refreshCalls' = refreshCalls + 1
            /\ refreshTokenPromise' = refreshCalls'
            /\ refreshState'[refreshCalls'] = "fetching"]_vars

\* C15 witness: a first refresh has finished and its waiter has resumed; a
\* later 401 has started the second call, which now occupies the slot.
C15_Witness ==
  /\ refreshState[1] \in {"ok", "fail"}
  /\ refreshCalls = 2 /\ refreshTokenPromise = 2 /\ refreshState[2] = "fetching"
  /\ \E r \in Reqs : req[r].awaited = 1 /\ req[r].result # "none"

\* C16: a 401 received while no refresh credential is stored is returned as it
\* is: the call is over with status 401 after one send, no refresh call was
\* made, the slot and the store are untouched and no reload is signalled --
\* in that step or later.
C16_NoRefreshCredential ==
  /\ [][\A r \in Reqs :
          (Gets401(r) /\ tokens.refresh = 0) =>
            /\ req'[r].pc = "done" /\ req'[r].status = 401
            /\ req'[r].sends = 1 /\ req'[r].awaits = 0
            /\ ~req'[r].reloaded
            /\ refreshCalls' = refreshCalls
            /\ refreshState' = refreshState
            /\ refreshTokenPromise' = refreshTokenPromise
            /\ tokens' = tokens]_vars
  /\ [](\A r \in Reqs :
          (req[r].pc = "done" /\ req[r].awaits = 0) =>
            (req[r].sends = 1 /\ ~req[r].reloaded /\ req[r].result = "none"))

\* C16 witness: a call has just returned the 401 it received with an empty
\* store, having sent once.
C16_Witness ==
  \E r \in Reqs :
    /\ op = Op("FirstResponse", r, <<>>)
    /\ tokens = [access |-> 0, refresh |-> 0]
    /\ req[r].pc = "done" /\ req[r].status = 401 /\ req[r].sends = 1

\* ============================================================= move claims
\* the id of the folder whose children hold folder id in the snapshot
\* (par for a node of `nodes` itself, -1 when id is not in the snapshot)
RECURSIVE ParentIn(_, _, _)
ParentIn(nodes, par, id) ==
  IF nodes = <<>> THEN -1
  ELSE IF Head(nodes)._id = id THEN par
  ELSE LET below == ParentIn(Head(nodes).children, Head(nodes)._id, id) IN
       IF below # -1 THEN below ELSE ParentIn(Tail(nodes), par, id)

\* id is folder f or lies below it in the snapshot
RECURSIVE Under(_, _, _)
Under(tree, id, f) ==
  \/ id = f
  \/ ParentIn(tree, 0, id) > 0 /\ Under(tree, ParentIn(tree, 0, id), f)

\* the ids of the folders of the batch
MovedFolders(m) == {m.data[i]._id : i \in {j \in DOMAIN m.data : m.data[j].type = "folder"}}

\* C11: for every move batch and every folder tree snapshot the disabled set
\* holds exactly the ids of the folders of the batch and of all their
\* descendants in the snapshot; files contribute nothing, and a batch without
\* folders gives the empty set.
C11_DisabledIsSubtree ==
  (op.name = "RenderModals" /\ modal.type = "move") =>
    /\ disabledIds =
         {id \in FolderNodes \cup {FileId} :
            \E f \in MovedFolders(modal) : Under(folderTree, id, f)}
    /\ MovedFolders(modal) = {} => disabledIds = {}

\* C11 witness: the tree root:[F1[F2], F3] with the batch [F1]: F1 and F2 are
\* disabled, F3 is not.
C11_Witness ==
  /\ modal = [type |-> "move", data |-> <<[_id |-> 1, type |-> "folder", parent |-> 0]>>]
  /\ folderTree = Snapshot((1 :> 0) @@ (2 :> 1) @@ (3 :> 0))
  /\ op.name = "RenderModals"
  /\ disabledIds = {1, 2}

\* C12: handleMove never sends a move request whose destination is in the
\* disabled set computed for the batch and the snapshot of that moment.
C12_NoMoveIntoSubtree ==
  [][op'.name = "handleMove" =>
       \A i \in DOMAIN op'.batch :
         op'.batch[i].dest \notin getDisabledIds(modal, folderTree)]_vars

\* ============================================================= poll claims
\* C20: while a progress view is mounted, the step in which a fetch of its
\* poll loop completes leaves a timer set for the next fetch.
C20_PollingContinues ==
  [][\A g \in PollIds :
       (op' = Op("FetchCompletes", g, <<>>) /\ progressView # 0 /\ g = pollGen)
         => loops'[g].pc = "timer"]_vars

\* the view of poll loop g has been left: its effect was cleaned up
Left(g) == loops[g].pc # "none" /\ (progressView = 0 \/ g # pollGen)

\* C21: a poll loop whose view has been left has no timer set and sends no
\* further request for the tasks, also when one of its requests was
\* unanswered at the moment the view was left.
C21_PollingStops ==
  /\ [](\A g \in PollIds : Left(g) => loops[g].pc \in {"fetching", "ended"})
  /\ [][\A g \in PollIds :
          Left(g) =>
            /\ loops'[g].fetches = loops[g].fetches
            /\ loops'[g].pc \in {loops[g].pc, "ended"}]_vars
  /\ [][\A g \in PollIds :
          op' = Op("PollTimer", g, <<>>) => (progressView # 0 /\ g = pollGen)]_vars

\* C21 witness: the first component was left while a request of its loop was
\* unanswered; the answer has now come and the loop has ended.
C21_Witness ==
  \E g \in PollIds :
    /\ op = Op("FetchCompletes", g, <<>>)
    /\ Left(g)
    /\ loops[g].variant = 1 /\ ~loops[g].mounted
    /\ loops[g].pc = "ended"

\* C22: the stored access and refresh credentials are both absent or both of
\* one issuance, in every state; and whenever a request reads the access
\* credential, the refresh credential in the store is of that same issuance.
C22_PairOfOneIssuance ==
  /\ [](tokens.access = tokens.refresh)
  /\ [][\A r \in Reqs :
          req'[r].sends > req[r].sends =>
            LET read == IF req'[r].sends = 1 THEN req'[r].tok1 ELSE req'[r].tok2 IN
            read = tokens.access /\ tokens.refresh = read]_vars

\* C22 witness: a replay has read the pair a refresh stored, which is of a
\* later issuance than the credential of the first send.
C22_Witness ==
  \E r \in Reqs :
    /\ op = Op("ResumeWaiter", r, <<>>)
    /\ req[r].sends = 2
    /\ req[r].tok2 = tokens.access /\ tokens.refresh = req[r].tok2
    /\ req[r].tok2 > req[r].tok1 /\ req[r].tok1 # 0

\* the last queue change did not concern item x and came some time after the
\* timer was set: an enqueue, or a transport event or cancel of another item
Unrelated(x) ==
  /\ op.name \notin {"ClearUploads", "EvictionTimer", "RunEffects", "init"}
  /\ op.id # x

\* C23: while the eviction timer set for a terminal item x is pending, a
\* queue change that does not concern x is not followed by an effect run
\* that clears that timer and sets a new one (clearTimeout, then setTimeout
\* with the full delay): x keeps the timer it got when it became terminal.
C23_TimerNotRestarted ==
  [][\A x \in Ids :
       (x \in timer /\ x \in finishedUploads(uploads) /\ Unrelated(x))
         => ~(op'.name = "RunEffects" /\ x \in timer')]_vars

\* ======================================================= uploadFiles claims
\* C24: the files uploadFiles queues are exactly the files of the batch whose
\* size does not exceed the maximum, whatever their MIME type.
C24_SizeOnly ==
  pushed.called =>
    pushed.files = SelectSeq(picked, LAMBDA f : f.size <= maxFileSize)

\* ====================================================== folder tree claims
\* C25: when a move dialog opens, and until its own getFolderTree() has been
\* answered, Modals holds no folder tree snapshot: the tree it renders is
\* empty and the disabled targets are computed from the empty tree.
C25_SnapshotDiscarded ==
  op.name = "OpenMove" =>
    /\ folderTree = <<>>
    /\ disabledIds = getDisabledIds(modal, <<>>)

\* ========================================================== session claims
\* C26: a store emptied by logout stays empty until a login: the step that
\* follows a logout, and any later step taken on the empty store, puts a
\* credential pair in the store only if it is a login; the answer of a
\* refresh that was unanswered at the logout stores nothing.
C26_NoCredentialsAfterLogout ==
  [][(tokens = NoTokens /\ tokens' # NoTokens) => op'.name = "Login"]_vars

\* ======================================================= transport claims
\* C27: every open XMLHttpRequest is the transfer of an item that is in the
\* queue with status "uploading", also after the queue was cleared; and
\* onUploadComplete is called only for an item that is in the queue.
C27_TransportHasItem ==
  /\ [](\A id \in Ids :
          xhrState[id] = "open" =>
            (id \in ItemIds(uploads) /\ ItemOf(uploads, id).status = "uploading"))
  /\ [][refreshKey' # refreshKey => op'.id \in ItemIds(uploads)]_vars

\* C28: api.uploadFile is called at most once per item: a transfer is started
\* only for an item that is in the queue with status "queued" and has had no
\* transfer yet, under every interleaving of effect runs, transport events,
\* cancels, enqueues, evictions and clearings of the queue.
C28_StartedAtMostOnce ==
  /\ [](\A id \in Ids : started[id] \in {0, 1})
  /\ [][\A id \in Ids :
          started'[id] # started[id] =>
            /\ started[id] = 0 /\ xhrState[id] = "unsent"
            /\ id \in ItemIds(uploads) /\ ItemOf(uploads, id).status = "queued"]_vars

\* C28 witness: two items were each started once; one was cancelled in
\* flight and has been evicted, the other is still in the queue and has
\* reported progress.
C28_Witness ==
  /\ op.name = "EvictionTimer"
  /\ \E a, b \in Ids :
       /\ a # b /\ started[a] = 1 /\ started[b] = 1
       /\ a \in cancels /\ a \notin ItemIds(uploads)
       /\ b \in ItemIds(uploads) /\ ItemOf(uploads, b).progress = 50

\* ============================================================= move results
\* the moves of the batch the server accepted
AcceptedMoves(results) == {i \in DOMAIN results : results[i] = "ok"}

\* C29: handleMove counts as moved only items whose move the server
\* accepted; an item whose request was answered with a non-success status
\* is counted as failed.
C29_MovedOnlyIfAccepted ==
  op.name = "MoveSettled" =>
    LET t == op.batch[1] IN
    /\ t.moved = Cardinality(AcceptedMoves(t.results))
    /\ t.failed = Len(t.results) - Cardinality(AcceptedMoves(t.results))

\* ================================================= upload and credentials
\* C30: no step of an upload transfer (start, progress, load, error, abort,
\* reading the response body) calls the refresh endpoint or changes the
\* stored pair; and when the body of a non-success response (401 included)
\* has been read, the item, if still in the queue, has status "error" and
\* its transfer has been started once only.
C30_UploadNeverRefreshes ==
  /\ [][(tokens' = tokens /\ refreshCalls' = refreshCalls
          /\ refreshTokenPromise' = refreshTokenPromise)]_vars
  /\ [][\A id \in Ids :
          op' = Op("JsonSettles", id, <<>>) =>
            /\ started'[id] = 1
            /\ id \in ItemIds(uploads') => ItemOf(uploads', id).status = "error"]_vars

====
